---- MODULE Spec2Model ----
(***************************************************************************)
(* A model of the RPN calculator of src/main.rs: RpnCalculator::eval and   *)
(* eval_inner (the stack machine over whitespace-separated tokens), the    *)
(* driver run (one line at a time from a reader) and main's exit status.   *)
(*                                                                         *)
(* Strings are sequences of one-character strings.  Integers are i32:      *)
(* every arithmetic helper stays inside [I32_MIN, I32_MAX] and decides     *)
(* overflow before it computes, as the checked and wrapping operations of  *)
(* the language do.                                                        *)
(***************************************************************************)
EXTENDS Integers, Sequences, FiniteSets, TLC

VARIABLES
    verbose,          \* RpnCalculator.0 / Opts.verbose
    overflow_checks,  \* build profile: TRUE = arithmetic overflow panics (debug), FALSE = wraps (release)
    pc,               \* control location
    lineNo,           \* number of lines the reader has yielded so far
    line,             \* the formula handed to eval
    tokens,           \* eval_inner's `tokens`: the reversed Vec, consumed by pop() from the end
    stack,            \* eval_inner's `stack`, bottom first
    pos,              \* eval_inner's `pos`
    outcome,          \* the Result<i32> eval returned
    output,           \* everything written so far, in order, each entry tagged with its channel
    reader,           \* the line source: "open", "failed" (it yielded an I/O error) or "eof"
    run_result,       \* what run returned: "None" while running, "Ok" or "Err"
    exit_code         \* process exit status, -1 while the process runs

vars == <<verbose, overflow_checks, pc, lineNo, line, tokens, stack, pos,
          outcome, output, reader, run_result, exit_code>>

(***************************************************************************)
(* Bounds of the model.                                                    *)
(***************************************************************************)
MaxTokens == 3
MaxRaggedTokens == 2
MaxLines == 2

(***************************************************************************)
(* i32                                                                     *)
(***************************************************************************)
I32_MAX == 2147483647
I32_MIN == (-2147483647) - 1

\* x / y of the language on i32 (truncation toward zero), for y # 0 and
\* (x, y) # (I32_MIN, -1); \div of TLA+ rounds toward minus infinity.
i32_div(x, y) ==
    IF y = I32_MIN THEN (IF x = I32_MIN THEN 1 ELSE 0)
    ELSE LET q == x \div y
             m == IF y > 0 THEN y ELSE -y
         IN  IF (x % m) # 0 /\ ((x < 0) # (y < 0)) THEN q + 1 ELSE q

\* the least non-negative remainder (rem_euclid), not the language's %
i32_rem_euclid(x, y) ==
    LET r == x - i32_div(x, y) * y
    IN  IF r >= 0 THEN r ELSE IF y < 0 THEN r - y ELSE r + y

\* x % y of the language on i32: the remainder of the truncated division.
i32_rem(x, y) == x - i32_div(x, y) * y

overflows_add(x, y) == (y > 0 /\ x > I32_MAX - y) \/ (y < 0 /\ x < I32_MIN - y)
overflows_sub(x, y) == (y < 0 /\ x > I32_MAX + y) \/ (y > 0 /\ x < I32_MIN + y)
overflows_mul(x, y) ==
    /\ x # 0
    /\ y # 0
    /\ \/ x > 0 /\ y > 0 /\ x > I32_MAX \div y
       \/ x > 0 /\ y < 0 /\ y < i32_div(I32_MIN, x)
       \/ x < 0 /\ y > 0 /\ x < i32_div(I32_MIN, y)
       \/ x < 0 /\ y < 0 /\ x < i32_div(I32_MAX, y)

\* The two's-complement results (x op y modulo 2^32, as a signed value).
wrapping_add(x, y) ==
    IF y > 0 /\ x > I32_MAX - y THEN (x - I32_MAX) + (y - I32_MAX) - 2
    ELSE IF y < 0 /\ x < I32_MIN - y THEN (x - I32_MIN) + (y - I32_MIN)
    ELSE x + y

wrapping_sub(x, y) ==
    IF y < 0 /\ x > I32_MAX + y THEN (x - I32_MAX) - (y + I32_MAX) - 2
    ELSE IF y > 0 /\ x < I32_MIN + y THEN (x - I32_MIN) - (y + I32_MIN)
    ELSE x - y

RECURSIVE wrapping_mul_nat(_, _)
wrapping_mul_nat(x, n) ==
    IF n = 0 THEN 0
    ELSE LET h == wrapping_mul_nat(wrapping_add(x, x), n \div 2)
         IN  IF n % 2 = 1 THEN wrapping_add(h, x) ELSE h

wrapping_mul(x, y) ==
    IF y >= 0 THEN wrapping_mul_nat(x, y)
    ELSE IF y = I32_MIN THEN (IF x % 2 = 1 THEN I32_MIN ELSE 0)
    ELSE wrapping_sub(0, wrapping_mul_nat(x, -y))

(***************************************************************************)
(* Characters, str::split_whitespace, str::parse::<i32>, Display for i32   *)
(***************************************************************************)
Digits == <<"0", "1", "2", "3", "4", "5", "6", "7", "8", "9">>
is_digit(c) == \E i \in 1..Len(Digits) : Digits[i] = c
to_digit(c) == (CHOOSE i \in 1..Len(Digits) : Digits[i] = c) - 1
is_whitespace(c) == c \in {" ", "\t"}

RECURSIVE split_from(_, _, _, _)
split_from(s, i, cur, acc) ==
    IF i > Len(s) THEN (IF cur = <<>> THEN acc ELSE Append(acc, cur))
    ELSE IF is_whitespace(s[i])
         THEN split_from(s, i + 1, <<>>, IF cur = <<>> THEN acc ELSE Append(acc, cur))
         ELSE split_from(s, i + 1, Append(cur, s[i]), acc)

\* formula.split_whitespace(): the maximal runs of non-whitespace, left to right.
split_whitespace(s) == split_from(s, 1, <<>>, <<>>)

\* .rev().collect::<Vec<_>>()
rev(v) == [i \in 1..Len(v) |-> v[Len(v) + 1 - i]]

ParseErr == [ok |-> FALSE, val |-> 0]
ParseOk(n) == [ok |-> TRUE, val |-> n]

\* The digit loop of i32::from_str: checked_mul(10), then checked_add(digit)
\* for a positive number and checked_sub(digit) for a negative one.
RECURSIVE parse_digits(_, _, _, _)
parse_digits(s, i, negative, acc) ==
    IF i > Len(s) THEN ParseOk(acc)
    ELSE IF ~is_digit(s[i]) THEN ParseErr
    ELSE LET d == to_digit(s[i]) IN
         IF negative
         THEN IF acc < i32_div(I32_MIN, 10) THEN ParseErr
              ELSE IF acc * 10 < I32_MIN + d THEN ParseErr
              ELSE parse_digits(s, i + 1, negative, acc * 10 - d)
         ELSE IF acc > I32_MAX \div 10 THEN ParseErr
              ELSE IF acc * 10 > I32_MAX - d THEN ParseErr
              ELSE parse_digits(s, i + 1, negative, acc * 10 + d)

\* parse_i32 whose digit loop wraps instead of checking the range
RECURSIVE parse_digits_wrapping(_, _, _, _)
parse_digits_wrapping(s, i, negative, acc) ==
    IF i > Len(s) THEN ParseOk(acc)
    ELSE IF ~is_digit(s[i]) THEN ParseErr
    ELSE IF negative
         THEN parse_digits_wrapping(s, i + 1, negative, wrapping_sub(wrapping_mul(acc, 10), to_digit(s[i])))
         ELSE parse_digits_wrapping(s, i + 1, negative, wrapping_add(wrapping_mul(acc, 10), to_digit(s[i])))

parse_i32_wrapping(s) ==
    IF s = <<>> THEN ParseErr
    ELSE IF Len(s) = 1 /\ s[1] \in {"+", "-"} THEN ParseErr
    ELSE IF s[1] = "+" THEN parse_digits_wrapping(s, 2, FALSE, 0)
    ELSE IF s[1] = "-" THEN parse_digits_wrapping(s, 2, TRUE, 0)
    ELSE parse_digits_wrapping(s, 1, FALSE, 0)

\* token.parse::<i32>(): empty, a lone sign, a non-digit or an out-of-range
\* value is an error; one leading "+" or "-" is a sign.
parse_i32(s) ==
    IF s = <<>> THEN ParseErr
    ELSE IF Len(s) = 1 /\ s[1] \in {"+", "-"} THEN ParseErr
    ELSE IF s[1] = "+" THEN parse_digits(s, 2, FALSE, 0)
    ELSE IF s[1] = "-" THEN parse_digits(s, 2, TRUE, 0)
    ELSE parse_digits(s, 1, FALSE, 0)

RECURSIVE fmt_nonpositive(_)
fmt_nonpositive(n) ==
    IF n > -10 THEN <<Digits[1 - n]>>
    ELSE Append(fmt_nonpositive(i32_div(n, 10)), Digits[1 - i32_rem(n, 10)])

\* "{}" of an i32: its decimal rendering.
to_string(n) == IF n < 0 THEN <<"-">> \o fmt_nonpositive(n) ELSE fmt_nonpositive(-n)

(***************************************************************************)
(* Results, errors and output lines                                        *)
(***************************************************************************)
None == [tag |-> "None", val |-> 0, msg |-> "", pos |-> 0]
Ok(n) == [tag |-> "Ok", val |-> n, msg |-> "", pos |-> 0]
\* An anyhow error: its message, and the position the message carries
\* (0 for the message without a position).
Err(m, p) == [tag |-> "Err", val |-> 0, msg |-> m, pos |-> p]

\* println!("{}", answer)
answer_line(n) == [chan |-> "stdout", kind |-> "answer", text |-> to_string(n)]
\* eprintln!("{:#?}", e)
error_line(e) == [chan |-> "stderr", kind |-> "error", err |-> e]
\* println!("{:?} {:?}", tokens, stack)
state_line(toks, stk) == [chan |-> "stdout", kind |-> "state", tokens |-> toks, stack |-> stk]
\* the panic hook's message
panic_line == [chan |-> "stderr", kind |-> "panic"]
\* the runtime's report of the Err main returned
io_error_line == [chan |-> "stderr", kind |-> "io"]

(***************************************************************************)
(* The operator match of eval_inner                                        *)
(***************************************************************************)
Operators == {<<"+">>, <<"-">>, <<"*">>, <<"/">>, <<"%">>}

Value(n) == [kind |-> "value", val |-> n]
Panic == [kind |-> "panic", val |-> 0]
Bail == [kind |-> "bail", val |-> 0]

\* match_token with the operands of "-" taken in the order they were popped
match_token_swapped(token, x, y, checks) ==
    IF token = <<"+">> THEN
        (IF overflows_add(x, y) /\ checks THEN Panic ELSE Value(wrapping_add(x, y)))
    ELSE IF token = <<"-">> THEN
        (IF overflows_sub(y, x) /\ checks THEN Panic ELSE Value(wrapping_sub(y, x)))
    ELSE IF token = <<"*">> THEN
        (IF overflows_mul(x, y) /\ checks THEN Panic ELSE Value(wrapping_mul(x, y)))
    ELSE IF token = <<"/">> THEN
        (IF y = 0 \/ (x = I32_MIN /\ y = -1) THEN Panic ELSE Value(i32_div(x, y)))
    ELSE IF token = <<"%">> THEN
        (IF y = 0 \/ (x = I32_MIN /\ y = -1) THEN Panic ELSE Value(i32_rem(x, y)))
    ELSE Bail

\* match_token whose default arm adds instead of bailing
match_token_lenient(token, x, y, checks) ==
    IF token = <<"-">> THEN
        (IF overflows_sub(x, y) /\ checks THEN Panic ELSE Value(wrapping_sub(x, y)))
    ELSE IF token = <<"*">> THEN
        (IF overflows_mul(x, y) /\ checks THEN Panic ELSE Value(wrapping_mul(x, y)))
    ELSE IF token = <<"/">> THEN
        (IF y = 0 \/ (x = I32_MIN /\ y = -1) THEN Panic ELSE Value(i32_div(x, y)))
    ELSE IF token = <<"%">> THEN
        (IF y = 0 \/ (x = I32_MIN /\ y = -1) THEN Panic ELSE Value(i32_rem(x, y)))
    ELSE (IF overflows_add(x, y) /\ checks THEN Panic ELSE Value(wrapping_add(x, y)))

\* a match whose `+` arm yields x alone
match_token_add_left(token, x, y, checks) ==
    IF token = <<"+">> THEN Value(x)
    ELSE IF token = <<"-">> THEN
        (IF overflows_sub(x, y) /\ checks THEN Panic ELSE Value(wrapping_sub(x, y)))
    ELSE IF token = <<"*">> THEN
        (IF overflows_mul(x, y) /\ checks THEN Panic ELSE Value(wrapping_mul(x, y)))
    ELSE IF token = <<"/">> THEN
        (IF y = 0 \/ (x = I32_MIN /\ y = -1) THEN Panic ELSE Value(i32_div(x, y)))
    ELSE IF token = <<"%">> THEN
        (IF y = 0 \/ (x = I32_MIN /\ y = -1) THEN Panic ELSE Value(i32_rem(x, y)))
    ELSE Bail

\* `match token { "+" => x + y, ... , _ => bail!(..) }` with x and y already
\* popped.  checks = the build's overflow checks: an overflowing + - * panics
\* with them and wraps without; a zero divisor and I32_MIN / -1 (or % -1)
\* panic in every build.
match_token(token, x, y, checks) ==
    IF token = <<"+">> THEN
        (IF overflows_add(x, y) /\ checks THEN Panic ELSE Value(wrapping_add(x, y)))
    ELSE IF token = <<"-">> THEN
        (IF overflows_sub(x, y) /\ checks THEN Panic ELSE Value(wrapping_sub(x, y)))
    ELSE IF token = <<"*">> THEN
        (IF overflows_mul(x, y) /\ checks THEN Panic ELSE Value(wrapping_mul(x, y)))
    ELSE IF token = <<"/">> THEN
        (IF y = 0 \/ (x = I32_MIN /\ y = -1) THEN Panic ELSE Value(i32_div(x, y)))
    ELSE IF token = <<"%">> THEN
        (IF y = 0 \/ (x = I32_MIN /\ y = -1) THEN Panic ELSE Value(i32_rem(x, y)))
    ELSE Bail

\* ensure_single that only rejects the empty stack
ensure_nonempty(stk) == IF Len(stk) >= 1 THEN Ok(stk[1]) ELSE Err("invalid syntax", 0)

\* ensure!(stack.len() == 1, "invalid syntax"); Ok(stack[0])
ensure_single(stk) == IF Len(stk) = 1 THEN Ok(stk[1]) ELSE Err("invalid syntax", 0)

\* the verbose print at the end of a loop iteration
verbose_print(out, flag, toks, stk) == IF flag THEN Append(out, state_line(toks, stk)) ELSE out

\* the token tokens.pop() yields, and what stays in the Vec
last_token(toks) == toks[Len(toks)]
but_last(v) == SubSeq(v, 1, Len(v) - 1)

(***************************************************************************)
(* Inputs                                                                  *)
(***************************************************************************)
T_0 == <<"0">>
T_2 == <<"2">>
T_m1 == <<"-", "1">>
T_max == <<"2", "1", "4", "7", "4", "8", "3", "6", "4", "7">>
T_min == <<"-", "2", "1", "4", "7", "4", "8", "3", "6", "4", "8">>
T_over == <<"2", "1", "4", "7", "4", "8", "3", "6", "4", "8">>
T_under == <<"-", "2", "1", "4", "7", "4", "8", "3", "6", "4", "9">>
T_plus2 == <<"+", "2">>
T_caret == <<"^">>
T_1 == <<"1">>
T_3 == <<"3">>
T_m7 == <<"-", "7">>

Vocabulary == Operators \cup {T_0, T_2, T_m1, T_max, T_min, T_over, T_under, T_plus2, T_caret}

TokenSeqs(n) == UNION {[1..k -> Vocabulary] : k \in 0..n}

RECURSIVE join_from(_, _, _)
join_from(ts, i, sep) ==
    IF i > Len(ts) THEN <<>>
    ELSE IF i = Len(ts) THEN ts[i]
    ELSE ts[i] \o sep \o join_from(ts, i + 1, sep)

\* ts written as a line: lead, the tokens separated by sep, trail
join(ts, lead, sep, trail) == lead \o join_from(ts, 1, sep) \o trail

Plain(ts) == join(ts, <<>>, <<" ">>, <<>>)
Ragged(ts) == join(ts, <<"\t">>, <<" ", "\t">>, <<" ", " ">>)

\* the formulas eval is tried on
Formulas == {Plain(ts) : ts \in TokenSeqs(MaxTokens)} \cup {Ragged(ts) : ts \in TokenSeqs(MaxRaggedTokens)}

\* the tokens of the formulas whose termination is checked
LiveVocabulary == {T_2, T_0, T_max, T_over, <<"+">>, <<"/">>, T_caret}
LiveFormulas == {Plain(ts) : ts \in UNION {[1..n -> LiveVocabulary] : n \in 0..MaxTokens}}

\* the formulas "a b op" of two literals and an operator
BinaryLiterals == {T_0, T_1, T_2, T_3, T_m1, T_m7, T_max, T_min}
BinaryFormulas == {Plain(<<a, b, op>>) : a \in BinaryLiterals, b \in BinaryLiterals, op \in Operators}

\* the lines a reader may yield to run
DriverLines ==
    { Plain(<<>>),
      Plain(<<T_2>>),
      Plain(<<T_2, T_m1, <<"-">>>>),
      Ragged(<<T_2, T_2, <<"*">>>>),
      Plain(<<T_2, T_0, <<"/">>>>),
      Plain(<<T_max, T_2, <<"+">>>>),
      Plain(<<<<"+">>, T_2, T_2>>),
      Plain(<<T_2, T_2, T_caret>>),
      Plain(<<T_2, T_2>>) }

(***************************************************************************)
(* State machine                                                           *)
(***************************************************************************)
\* run has been called on a fresh reader: `let calc = RpnCalculator::new(verbose)`
Init ==
    /\ verbose \in BOOLEAN
    /\ overflow_checks \in BOOLEAN
    /\ pc = "read"
    /\ lineNo = 0
    /\ line = <<>>
    /\ tokens = <<>>
    /\ stack = <<>>
    /\ pos = 0
    /\ outcome = None
    /\ output = <<>>
    /\ reader = "open"
    /\ run_result = "None"
    /\ exit_code = -1

\* eval has been called directly (as the tests do) on one formula
InitEval ==
    /\ verbose \in BOOLEAN
    /\ overflow_checks \in BOOLEAN
    /\ pc = "eval"
    /\ lineNo = 0
    /\ line \in Formulas
    /\ tokens = <<>>
    /\ stack = <<>>
    /\ pos = 0
    /\ outcome = None
    /\ output = <<>>
    /\ reader = "open"
    /\ run_result = "None"
    /\ exit_code = -1

\* eval has been called on a formula of literals, an out-of-range literal,
\* operators and an unknown token: every kind of iteration occurs
InitLive ==
    /\ verbose \in BOOLEAN
    /\ overflow_checks \in BOOLEAN
    /\ pc = "eval"
    /\ lineNo = 0
    /\ line \in LiveFormulas
    /\ tokens = <<>>
    /\ stack = <<>>
    /\ pos = 0
    /\ outcome = None
    /\ output = <<>>
    /\ reader = "open"
    /\ run_result = "None"
    /\ exit_code = -1

\* eval has been called directly on a formula "a b op"
InitBinary ==
    /\ verbose \in BOOLEAN
    /\ overflow_checks \in BOOLEAN
    /\ pc = "eval"
    /\ lineNo = 0
    /\ line \in BinaryFormulas
    /\ tokens = <<>>
    /\ stack = <<>>
    /\ pos = 0
    /\ outcome = None
    /\ output = <<>>
    /\ reader = "open"
    /\ run_result = "None"
    /\ exit_code = -1

\* reader.lines() yields Some(Ok(line)); run calls calc.eval(&line)
run_read_line ==
    /\ pc = "read"
    /\ lineNo < MaxLines
    /\ \E l \in DriverLines : line' = l
    /\ lineNo' = lineNo + 1
    /\ pc' = "eval"
    /\ outcome' = None
    /\ UNCHANGED <<verbose, overflow_checks, tokens, stack, pos, output, reader, run_result, exit_code>>

\* reader.lines() yields Some(Err(e)); `let line = line?` returns it from run
run_read_error ==
    /\ pc = "read"
    /\ reader' = "failed"
    /\ run_result' = "Err"
    /\ pc' = "returned"
    /\ UNCHANGED <<verbose, overflow_checks, lineNo, line, tokens, stack, pos, outcome, output, exit_code>>

\* reader.lines() yields None; run returns Ok(())
run_end_of_stream ==
    /\ pc = "read"
    /\ reader' = "eof"
    /\ run_result' = "Ok"
    /\ pc' = "returned"
    /\ UNCHANGED <<verbose, overflow_checks, lineNo, line, tokens, stack, pos, outcome, output, exit_code>>

\* eval that collects the tokens without reversing them
eval_unreversed ==
    /\ pc = "eval"
    /\ tokens' = split_whitespace(line)
    /\ stack' = <<>>
    /\ pos' = 0
    /\ pc' = "loop"
    /\ UNCHANGED <<verbose, overflow_checks, lineNo, line, outcome, output, reader, run_result, exit_code>>

\* eval whose stack and pos outlive the call (kept in the calculator)
eval_keeping_state ==
    /\ pc = "eval"
    /\ tokens' = rev(split_whitespace(line))
    /\ pc' = "loop"
    /\ UNCHANGED <<verbose, overflow_checks, lineNo, line, stack, pos, outcome, output, reader, run_result, exit_code>>

\* eval: split, reverse, collect; eval_inner's fresh stack and pos
eval ==
    /\ pc = "eval"
    /\ tokens' = rev(split_whitespace(line))
    /\ stack' = <<>>
    /\ pos' = 0
    /\ pc' = "loop"
    /\ UNCHANGED <<verbose, overflow_checks, lineNo, line, outcome, output, reader, run_result, exit_code>>

\* a push whose verbose print takes the stack: only the new value is left
eval_inner_push_verbose_taking ==
    /\ pc = "loop"
    /\ tokens # <<>>
    /\ LET token == last_token(tokens)
           parsed == parse_i32(token)
       IN  /\ parsed.ok
           /\ tokens' = but_last(tokens)
           /\ pos' = pos + 1
           /\ stack' = IF verbose THEN <<parsed.val>> ELSE Append(stack, parsed.val)
           /\ output' = verbose_print(output, verbose, tokens', stack')
    /\ UNCHANGED <<verbose, overflow_checks, pc, lineNo, line, outcome, reader, run_result, exit_code>>

\* one iteration on a token that parses as i32: push it
eval_inner_push ==
    /\ pc = "loop"
    /\ tokens # <<>>
    /\ LET token == last_token(tokens)
           parsed == parse_i32(token)
       IN  /\ parsed.ok
           /\ tokens' = but_last(tokens)
           /\ pos' = pos + 1
           /\ stack' = Append(stack, parsed.val)
           /\ output' = verbose_print(output, verbose, tokens', stack')
    /\ UNCHANGED <<verbose, overflow_checks, pc, lineNo, line, outcome, reader, run_result, exit_code>>

\* eval_inner_underflow reporting the position before the increment
eval_inner_underflow_stale_pos ==
    /\ pc = "loop"
    /\ tokens # <<>>
    /\ ~parse_i32(last_token(tokens)).ok
    /\ Len(stack) < 2
    /\ tokens' = but_last(tokens)
    /\ pos' = pos + 1
    /\ stack' = <<>>
    /\ outcome' = Err("invalid syntax at", pos)
    /\ pc' = "ret"
    /\ UNCHANGED <<verbose, overflow_checks, lineNo, line, output, reader, run_result, exit_code>>

\* one iteration on a token that does not parse, with fewer than two values
\* to pop: the first failing stack.pop() returns "invalid syntax at pos"
eval_inner_underflow ==
    /\ pc = "loop"
    /\ tokens # <<>>
    /\ ~parse_i32(last_token(tokens)).ok
    /\ Len(stack) < 2
    /\ tokens' = but_last(tokens)
    /\ pos' = pos + 1
    /\ stack' = <<>>
    /\ outcome' = Err("invalid syntax at", pos')
    /\ pc' = "ret"
    /\ UNCHANGED <<verbose, overflow_checks, lineNo, line, output, reader, run_result, exit_code>>

\* one iteration on a token that does not parse, two values popped, the
\* match yields a value: push it
eval_inner_apply ==
    /\ pc = "loop"
    /\ tokens # <<>>
    /\ ~parse_i32(last_token(tokens)).ok
    /\ Len(stack) >= 2
    /\ LET y == stack[Len(stack)]
           x == stack[Len(stack) - 1]
           res == match_token(last_token(tokens), x, y, overflow_checks)
       IN  /\ res.kind = "value"
           /\ tokens' = but_last(tokens)
           /\ pos' = pos + 1
           /\ stack' = Append(but_last(but_last(stack)), res.val)
           /\ output' = verbose_print(output, verbose, tokens', stack')
    /\ UNCHANGED <<verbose, overflow_checks, pc, lineNo, line, outcome, reader, run_result, exit_code>>

\* an unknown token that is skipped: the loop goes on with the next token
eval_inner_invalid_token_skipping ==
    /\ pc = "loop"
    /\ tokens # <<>>
    /\ ~parse_i32(last_token(tokens)).ok
    /\ Len(stack) >= 2
    /\ LET y == stack[Len(stack)]
           x == stack[Len(stack) - 1]
           res == match_token(last_token(tokens), x, y, overflow_checks)
       IN  /\ res.kind = "bail"
           /\ tokens' = but_last(tokens)
           /\ pos' = pos + 1
           /\ stack' = but_last(but_last(stack))
    /\ UNCHANGED <<verbose, overflow_checks, pc, lineNo, line, outcome, output, reader, run_result, exit_code>>

\* ... the match reaches `_ => bail!("invalid token at {}", pos)`
eval_inner_invalid_token ==
    /\ pc = "loop"
    /\ tokens # <<>>
    /\ ~parse_i32(last_token(tokens)).ok
    /\ Len(stack) >= 2
    /\ LET y == stack[Len(stack)]
           x == stack[Len(stack) - 1]
           res == match_token(last_token(tokens), x, y, overflow_checks)
       IN  /\ res.kind = "bail"
           /\ tokens' = but_last(tokens)
           /\ pos' = pos + 1
           /\ stack' = but_last(but_last(stack))
           /\ outcome' = Err("invalid token at", pos')
           /\ pc' = "ret"
    /\ UNCHANGED <<verbose, overflow_checks, lineNo, line, output, reader, run_result, exit_code>>

\* ... the arithmetic of the match panics: the thread unwinds, the panic
\* message goes to stderr and the process exits with status 101
eval_inner_panic ==
    /\ pc = "loop"
    /\ tokens # <<>>
    /\ ~parse_i32(last_token(tokens)).ok
    /\ Len(stack) >= 2
    /\ LET y == stack[Len(stack)]
           x == stack[Len(stack) - 1]
           res == match_token(last_token(tokens), x, y, overflow_checks)
       IN  /\ res.kind = "panic"
           /\ tokens' = but_last(tokens)
           /\ pos' = pos + 1
           /\ stack' = but_last(but_last(stack))
           /\ output' = Append(output, panic_line)
           /\ pc' = "panic"
           /\ exit_code' = 101
    /\ UNCHANGED <<verbose, overflow_checks, lineNo, line, outcome, reader, run_result>>

\* tokens.pop() yields None: the loop ends, ensure! decides
eval_inner_finish ==
    /\ pc = "loop"
    /\ tokens = <<>>
    /\ outcome' = ensure_single(stack)
    /\ pc' = "ret"
    /\ UNCHANGED <<verbose, overflow_checks, lineNo, line, tokens, stack, pos, output, reader, run_result, exit_code>>

\* run_report that returns the evaluation error from run (`calc.eval(&line)?`)
run_report_aborting ==
    /\ pc = "ret"
    /\ output' = IF outcome.tag = "Ok" THEN Append(output, answer_line(outcome.val)) ELSE output
    /\ pc' = IF outcome.tag = "Ok" THEN "read" ELSE "returned"
    /\ run_result' = IF outcome.tag = "Ok" THEN run_result ELSE "Err"
    /\ UNCHANGED <<verbose, overflow_checks, lineNo, line, tokens, stack, pos, outcome, reader, exit_code>>

\* run's match on what eval returned
run_report ==
    /\ pc = "ret"
    /\ output' = Append(output, IF outcome.tag = "Ok" THEN answer_line(outcome.val) ELSE error_line(outcome))
    /\ pc' = "read"
    /\ UNCHANGED <<verbose, overflow_checks, lineNo, line, tokens, stack, pos, outcome, reader, run_result, exit_code>>

\* main returns what run returned: status 0 for Ok(()), and for Err the
\* runtime prints the error and the status is 1
main_exit ==
    /\ pc = "returned"
    /\ exit_code' = IF run_result = "Ok" THEN 0 ELSE 1
    /\ output' = IF run_result = "Ok" THEN output ELSE Append(output, io_error_line)
    /\ pc' = "exit"
    /\ UNCHANGED <<verbose, overflow_checks, lineNo, line, tokens, stack, pos, outcome, reader, run_result>>

NextEval ==
    \/ eval
    \/ eval_inner_push
    \/ eval_inner_underflow
    \/ eval_inner_apply
    \/ eval_inner_invalid_token
    \/ eval_inner_panic
    \/ eval_inner_finish

Next ==
    \/ run_read_line
    \/ run_read_error
    \/ run_end_of_stream
    \/ NextEval
    \/ run_report
    \/ main_exit

\* the driver: run over a reader, then main's exit
Spec == Init /\ [][Next]_vars

\* one call of eval on one formula
SpecEval == InitEval /\ [][NextEval]_vars

\* the steps eval takes on a formula "a b op": no token fails a pop or the match
NextBinary ==
    \/ eval
    \/ eval_inner_push
    \/ eval_inner_apply
    \/ eval_inner_panic
    \/ eval_inner_finish

\* one call of eval on one formula "a b op"
SpecBinary == InitBinary /\ [][NextBinary]_vars

\* eval runs to its return or to the panic: the thread is never suspended
\* (single-threaded, synchronous), so a step that can be taken is taken
SpecEvalLive == InitLive /\ [][NextEval]_vars /\ WF_vars(NextEval)

(***************************************************************************)
(* The vocabulary of the claims: literals and values as the specification  *)
(* words them, decided on the text of a token                              *)
(***************************************************************************)
all_digits(s) == Len(s) >= 1 /\ \A i \in 1..Len(s) : is_digit(s[i])
tail(s) == SubSeq(s, 2, Len(s))

\* an optional leading minus followed by decimal digits
is_decimal(tok) == tok # <<>> /\ (IF tok[1] = "-" THEN all_digits(tail(tok)) ELSE all_digits(tok))
\* a leading plus followed by decimal digits
is_plus_decimal(tok) == tok # <<>> /\ tok[1] = "+" /\ all_digits(tail(tok))

RECURSIVE strip_zeros(_)
strip_zeros(ds) == IF Len(ds) > 1 /\ ds[1] = "0" THEN strip_zeros(tail(ds)) ELSE ds

\* ds <= limit for two digit strings of the same length
RECURSIVE digits_le(_, _)
digits_le(ds, limit) ==
    IF ds = <<>> THEN TRUE
    ELSE IF to_digit(ds[1]) < to_digit(limit[1]) THEN TRUE
    ELSE IF to_digit(ds[1]) > to_digit(limit[1]) THEN FALSE
    ELSE digits_le(tail(ds), tail(limit))

\* the value a decimal token denotes lies in [-2147483648, 2147483647]
decimal_in_range(tok) ==
    LET negative == tok[1] = "-"
        ds == strip_zeros(IF negative THEN tail(tok) ELSE tok)
        limit == IF negative THEN tail(T_min) ELSE T_max
    IN  Len(ds) < Len(limit) \/ (Len(ds) = Len(limit) /\ digits_le(ds, limit))

is_literal(tok) == is_decimal(tok) /\ decimal_in_range(tok)
is_out_of_range(tok) == is_decimal(tok) /\ ~decimal_in_range(tok)

\* the value of a literal, read digit by digit
RECURSIVE digits_value(_, _)
digits_value(ds, sign) ==
    IF ds = <<>> THEN 0
    ELSE digits_value(but_last(ds), sign) * 10 + sign * to_digit(ds[Len(ds)])
literal_value(tok) == IF tok[1] = "-" THEN digits_value(tail(tok), -1) ELSE digits_value(tok, 1)

\* x op y is defined and representable
op_defined(op, x, y) ==
    IF op = <<"+">> THEN ~overflows_add(x, y)
    ELSE IF op = <<"-">> THEN ~overflows_sub(x, y)
    ELSE IF op = <<"*">> THEN ~overflows_mul(x, y)
    ELSE y # 0 /\ ~(x = I32_MIN /\ y = -1)
op_value(op, x, y) ==
    IF op = <<"+">> THEN x + y
    ELSE IF op = <<"-">> THEN x - y
    ELSE IF op = <<"*">> THEN x * y
    ELSE IF op = <<"/">> THEN i32_div(x, y)
    ELSE i32_rem(x, y)

\* The left-to-right scan of the tokens ts[i..] against the stack stk: a
\* literal is pushed; an operator takes y from the top and x from below it
\* and pushes x op y.  def is FALSE where the scan meets anything else.
RECURSIVE scan(_, _, _)
scan(ts, i, stk) ==
    IF i > Len(ts) THEN [def |-> TRUE, stk |-> stk]
    ELSE IF is_literal(ts[i]) THEN scan(ts, i + 1, Append(stk, literal_value(ts[i])))
    ELSE IF ts[i] \in Operators /\ Len(stk) >= 2
         THEN LET y == stk[Len(stk)]
                  x == stk[Len(stk) - 1]
              IN  IF op_defined(ts[i], x, y)
                  THEN scan(ts, i + 1, Append(but_last(but_last(stk)), op_value(ts[i], x, y)))
                  ELSE [def |-> FALSE, stk |-> stk]
    ELSE [def |-> FALSE, stk |-> stk]

\* the tokens of the formula being evaluated, left to right
line_tokens == split_whitespace(line)
\* the 1-based index, in the line, of the token the next iteration pops
next_index == Len(line_tokens) - Len(tokens) + 1
\* the stack stk2 holds no value that stk1 did not hold at the same place
is_prefix(stk2, stk1) == Len(stk2) <= Len(stk1) /\ \A i \in 1..Len(stk2) : stk2[i] = stk1[i]

(***************************************************************************)
(* Claims                                                                  *)
(***************************************************************************)

\* C1: a formula of literals and operators that evaluates without error
\* returns the value of the left-to-right scan in which an operator pops y
\* first, x second, and pushes x op y (so "a b -" is a - b).
C1_LeftToRightScan ==
    (pc = "ret" /\ outcome.tag = "Ok" /\ scan(line_tokens, 1, <<>>).def)
        => LET r == scan(line_tokens, 1, <<>>)
           IN  Len(r.stk) = 1 /\ outcome.val = r.stk[1]

\* C1 witness: "2 -1 -" has returned 2 - (-1) = 3.
C1_Witness ==
    /\ pc = "ret"
    /\ line_tokens = <<T_2, T_m1, <<"-">>>>
    /\ outcome = Ok(3)

\* C2: once every token is consumed without an error, eval returns the single
\* stack value exactly when the depth is 1, and the position-less
\* "invalid syntax" for depth 0 (empty or blank input) and depth >= 2.
C2_FinalDepthDecides ==
    /\ [][(pc = "loop" /\ tokens = <<>>)
            => /\ pc' = "ret"
               /\ (Len(stack) = 1 => outcome' = Ok(stack[1]))
               /\ (Len(stack) # 1 => outcome' = Err("invalid syntax", 0))]_vars
    /\ []((pc = "ret" /\ outcome.tag = "Ok") => (tokens = <<>> /\ Len(stack) = 1))
    /\ []((pc = "ret" /\ line_tokens = <<>>) => outcome = Err("invalid syntax", 0))

\* C2 witness: two values were left ("2 2"), and eval returned "invalid syntax".
C2_Witness ==
    /\ pc = "ret"
    /\ Len(stack) = 2
    /\ tokens = <<>>
    /\ outcome = Err("invalid syntax", 0)

\* C3: an operator reached with fewer than 2 values on the stack fails with
\* "invalid syntax at" its 1-based index, is not applied, and ends the
\* evaluation with the later tokens untouched.
C3_UnderflowAtOperator ==
    /\ [][(pc = "loop" /\ tokens # <<>> /\ last_token(tokens) \in Operators /\ Len(stack) < 2)
            => /\ pc' = "ret"
               /\ line_tokens[next_index] = last_token(tokens)
               /\ outcome' = Err("invalid syntax at", next_index)
               /\ is_prefix(stack', stack)
               /\ tokens' = but_last(tokens)]_vars
    /\ [][pc = "ret" => (pc' # "loop" /\ tokens' = tokens /\ stack' = stack)]_vars

\* C3 witness: "2 + 2" failed at position 2 and its third token was never popped.
C3_Witness ==
    /\ pc = "ret"
    /\ line_tokens = <<T_2, <<"+">>, T_2>>
    /\ outcome = Err("invalid syntax at", 2)
    /\ tokens = <<T_2>>

\* C4 as claimed: a token that is neither numeric nor an operator fails with
\* "invalid token at" its position whatever the stack holds.
C4_Original ==
    [][(pc = "loop" /\ tokens # <<>>
          /\ ~parse_i32(last_token(tokens)).ok /\ last_token(tokens) \notin Operators)
            => (pc' = "ret" /\ outcome' = Err("invalid token at", next_index))]_vars

\* C4 as amended: such a token fails at its position, with "invalid token at"
\* when the stack holds at least 2 values and with "invalid syntax at" when
\* it holds fewer (the two pops come before the match).
C4_InvalidTokenAfterPops ==
    [][(pc = "loop" /\ tokens # <<>>
          /\ ~parse_i32(last_token(tokens)).ok /\ last_token(tokens) \notin Operators)
            => /\ pc' = "ret"
               /\ outcome' = IF Len(stack) >= 2
                             THEN Err("invalid token at", next_index)
                             ELSE Err("invalid syntax at", next_index)]_vars

\* C4 witness: "2 2 ^" failed with "invalid token at 3".
C4_Witness ==
    /\ pc = "ret"
    /\ line_tokens = <<T_2, T_2, T_caret>>
    /\ outcome = Err("invalid token at", 3)

\* the results and diagnostics written for lines (one println! or eprintln! of run each)
is_report(e) == e.kind \in {"answer", "error"}
reports(out) == Len(SelectSeq(out, is_report))

\* C5 as claimed: for every input string eval returns an integer or an error
\* to its caller and never terminates the process, a zero divisor and an
\* out-of-range result included.
C5_Original ==
    /\ pc # "panic"
    /\ exit_code = -1

\* C6 as claimed: every line read has exactly one result or diagnostic by the
\* time run moves past it, and the process stops only when the stream has
\* ended: no failing line keeps the later ones from being evaluated.
C6_Original ==
    /\ pc \in {"read", "returned", "exit", "panic"} => reports(output) = lineNo
    /\ pc \in {"eval", "loop", "ret"} => reports(output) = lineNo - 1
    /\ exit_code # -1 => reader # "open"

\* C7: run returns Err exactly when a read failed, at once and with no line
\* evaluated or reported after it; evaluation errors never make run fail, and
\* at end of stream run returns Ok and the exit code is 0.
C7_RunFailsOnlyOnReadError ==
    /\ [](run_result = "Err" <=> reader = "failed")
    /\ [](reader = "eof" => run_result = "Ok")
    /\ [](pc = "exit" => exit_code = IF reader = "eof" THEN 0 ELSE 1)
    /\ [][(reader = "open" /\ reader' = "failed")
            => (pc' = "returned" /\ lineNo' = lineNo /\ output' = output)]_vars
    /\ [][run_result # "None"
            => (pc' \in {"returned", "exit"} /\ lineNo' = lineNo /\ outcome' = outcome
                /\ reports(output') = reports(output))]_vars

\* C7 witness: two lines were read, both failed to evaluate, and the process
\* exited with status 0.
C7_Witness ==
    /\ pc = "exit"
    /\ exit_code = 0
    /\ lineNo = 2
    /\ Len(SelectSeq(output, LAMBDA e : e.kind = "error")) = 2

\* C8 as claimed: a token of a plus sign followed by digits is not numeric, so
\* it is never pushed (the loop never continues past it) and no formula
\* holding one evaluates to a value.
C8_Original ==
    /\ (pc = "loop" /\ pos >= 1) => ~is_plus_decimal(line_tokens[pos])
    /\ (pc = "ret" /\ outcome.tag = "Ok")
          => \A i \in 1..Len(line_tokens) : ~is_plus_decimal(line_tokens[i])

\* C9: a decimal token outside [-2147483648, 2147483647] is never pushed: the
\* iteration that pops it ends the evaluation with an error and adds nothing
\* to the stack, so no formula holding one yields a value; 2147483647 and
\* -2147483648 evaluate to themselves.
C9_OutOfRangeRejected ==
    /\ [][(pc = "loop" /\ tokens # <<>> /\ is_out_of_range(last_token(tokens)))
            => /\ pc' = "ret"
               /\ outcome'.tag = "Err"
               /\ outcome'.pos = pos + 1
               /\ is_prefix(stack', stack)]_vars
    /\ [](outcome.tag = "Ok"
            => \A i \in 1..Len(line_tokens) : ~is_out_of_range(line_tokens[i]))
    /\ []((pc = "ret" /\ line_tokens = <<T_max>>) => outcome = Ok(I32_MAX))
    /\ []((pc = "ret" /\ line_tokens = <<T_min>>) => outcome = Ok(I32_MIN))

\* C9 witness: "2 2 2147483648" ended at its third token with an error.
C9_Witness ==
    /\ pc = "ret"
    /\ line_tokens = <<T_2, T_2, T_over>>
    /\ outcome = Err("invalid token at", 3)
    /\ stack = <<>>

\* C10 as claimed: the per-token state lines go to the diagnostic channel
\* only, and the success channel carries decimal integers and nothing else.
C10_Original ==
    \A i \in 1..Len(output) :
        /\ output[i].kind = "state" => output[i].chan = "stderr"
        /\ output[i].chan = "stdout" => (output[i].kind = "answer" /\ is_decimal(output[i].text))

(***************************************************************************)
(* The evaluation of a formula as a function of its tokens: the            *)
(* configuration after the first k tokens, read left to right by index     *)
(***************************************************************************)
Config(st, stk, out) == [st |-> st, stk |-> stk, out |-> out]

\* one token, the k-th, applied to a configuration that is still running
token_step(c, tok, k, checks) ==
    IF parse_i32(tok).ok THEN Config("loop", Append(c.stk, parse_i32(tok).val), None)
    ELSE IF Len(c.stk) < 2 THEN Config("ret", <<>>, Err("invalid syntax at", k))
    ELSE LET y == c.stk[Len(c.stk)]
             x == c.stk[Len(c.stk) - 1]
             rest == but_last(but_last(c.stk))
             res == match_token(tok, x, y, checks)
         IN  IF res.kind = "value" THEN Config("loop", Append(rest, res.val), None)
             ELSE IF res.kind = "bail" THEN Config("ret", rest, Err("invalid token at", k))
             ELSE Config("panic", rest, None)

RECURSIVE after(_, _, _)
after(ts, k, checks) ==
    IF k = 0 THEN Config("loop", <<>>, None)
    ELSE LET c == after(ts, k - 1, checks)
         IN  IF c.st = "loop" THEN token_step(c, ts[k], k, checks) ELSE c

\* what eval does on the tokens ts: the configuration it ends in
eval_fn(ts, checks) ==
    LET c == after(ts, Len(ts), checks)
    IN  IF c.st = "loop" THEN Config("ret", c.stk, ensure_single(c.stk)) ELSE c

state_lines(out) == SelectSeq(out, LAMBDA e : e.kind = "state")

\* C11 as claimed: with verbose set there is one state line for every token
\* processed, the failing one included, each listing the remaining tokens
\* next-token-first and the stack at that point; with verbose clear there is none.
C11_Original ==
    /\ ~verbose => state_lines(output) = <<>>
    /\ (verbose /\ pc \in {"loop", "ret", "panic"})
          => /\ Len(state_lines(output)) = pos
             /\ \A i \in 1..Len(state_lines(output)) :
                    /\ state_lines(output)[i].tokens = SubSeq(line_tokens, i + 1, Len(line_tokens))
                    /\ state_lines(output)[i].stack = after(line_tokens, i, overflow_checks).stk

\* C12: what eval does on a line is a function of the line's text alone (in
\* one build): after any earlier lines, successful or failed, it returns what
\* the evaluation of these tokens from an empty stack and position 0 returns,
\* and panics only where that evaluation panics.
C12_OutcomeDependsOnLineOnly ==
    /\ pc = "ret" => /\ eval_fn(line_tokens, overflow_checks).st = "ret"
                     /\ outcome = eval_fn(line_tokens, overflow_checks).out
    /\ pc = "panic" => eval_fn(line_tokens, overflow_checks).st = "panic"
    /\ (pc = "loop" /\ pos = 0) => stack = <<>>

\* C12 witness: the second line returned 3 after the first line had failed
\* with values left on the stack.
C12_Witness ==
    /\ pc = "ret"
    /\ lineNo = 2
    /\ outcome = Ok(3)
    /\ Len(output) >= 1
    /\ output[Len(output)].kind = "error"
    /\ output[Len(output)].err = Err("invalid syntax", 0)

(***************************************************************************)
(* Formulas of two literals and one operator                               *)
(***************************************************************************)
is_binary == Len(line_tokens) = 3 /\ is_literal(line_tokens[1]) /\ is_literal(line_tokens[2])
lhs == literal_value(line_tokens[1])
rhs == literal_value(line_tokens[2])
binop == line_tokens[3]
returned(ts) == eval_fn(ts, overflow_checks).out

\* C13: where the operation does not overflow, `a b +` returns what `b a +`
\* returns and `a b *` what `b a *` returns, `a 0 +` and `a 1 *` return a,
\* and `a a -` returns 0.
C13_OperatorLaws ==
    (pc = "ret" /\ is_binary /\ op_defined(binop, lhs, rhs))
        => /\ outcome.tag = "Ok"
           /\ binop \in {<<"+">>, <<"*">>}
                 => outcome = returned(<<line_tokens[2], line_tokens[1], binop>>)
           /\ (binop = <<"+">> /\ line_tokens[2] = T_0) => outcome = Ok(lhs)
           /\ (binop = <<"*">> /\ line_tokens[2] = T_1) => outcome = Ok(lhs)
           /\ (binop = <<"-">> /\ line_tokens[1] = line_tokens[2]) => outcome = Ok(0)

\* C13 witness: `-7 2 +` has returned -5, as `2 -7 +` does.
C13_Witness ==
    /\ pc = "ret"
    /\ line_tokens = <<T_m7, T_2, <<"+">>>>
    /\ outcome = Ok(-5)
    /\ returned(<<T_2, T_m7, <<"+">>>>) = Ok(-5)

\* -|v|, which every i32 has
nabs(v) == IF v > 0 THEN -v ELSE v

\* q is x divided by y with the fraction discarded: q * y lies between 0 and
\* x, less than |y| away from x
truncates(q, x, y) ==
    /\ q * y = 0 \/ ((q * y < 0) = (x < 0))
    /\ nabs(q * y) >= nabs(x)
    /\ nabs(x) - nabs(q * y) > nabs(y)

\* C14: for y # 0 (and not i32::MIN by -1), `x y /` returns the quotient
\* truncated toward zero and `x y %` the r with x = (x / y) * y + r,
\* |r| < |y|, r = 0 or of the sign of x; `2 3 /` is 0, `2 3 %` is 2 and
\* `-7 2 %` is -1.
C14_TruncatedDivision ==
    /\ (pc = "ret" /\ is_binary /\ binop \in {<<"/">>, <<"%">>} /\ op_defined(binop, lhs, rhs))
          => /\ outcome.tag = "Ok"
             /\ binop = <<"/">> => truncates(outcome.val, lhs, rhs)
             /\ binop = <<"%">> =>
                   LET q == returned(<<line_tokens[1], line_tokens[2], <<"/">>>>).val
                       r == outcome.val
                   IN  /\ truncates(q, lhs, rhs)
                       /\ r = lhs - q * rhs
                       /\ nabs(r) > nabs(rhs)
                       /\ r = 0 \/ ((r < 0) = (lhs < 0))
    /\ (pc = "ret" /\ line_tokens = <<T_2, T_3, <<"/">>>>) => outcome = Ok(0)
    /\ (pc = "ret" /\ line_tokens = <<T_2, T_3, <<"%">>>>) => outcome = Ok(2)
    /\ (pc = "ret" /\ line_tokens = <<T_m7, T_2, <<"%">>>>) => outcome = Ok(-1)
    /\ (pc = "ret" /\ line_tokens = <<T_m7, T_2, <<"/">>>>) => outcome = Ok(-3)

\* C14 witness: `-7 2 %` has returned -1.
C14_Witness ==
    /\ pc = "ret"
    /\ line_tokens = <<T_m7, T_2, <<"%">>>>
    /\ outcome = Ok(-1)

(***************************************************************************)
(* Counting the tokens of a line                                           *)
(***************************************************************************)
numerics(ts, k) == Cardinality({i \in 1..k : is_literal(ts[i])})
operators(ts, k) == Cardinality({i \in 1..k : ts[i] \in Operators})

\* every token is a numeric literal or an operator, every operator finds the
\* results of the tokens before it at depth 2 or more, and the depth ends at 1
well_formed(ts) ==
    /\ \A i \in 1..Len(ts) : is_literal(ts[i]) \/ ts[i] \in Operators
    /\ \A i \in 1..Len(ts) :
           ts[i] \in Operators => numerics(ts, i - 1) - operators(ts, i - 1) >= 2
    /\ numerics(ts, Len(ts)) - operators(ts, Len(ts)) = 1

\* C15 as claimed: eval succeeds exactly on the formulas whose tokens are all
\* numeric literals or operators, whose operators are each reached with two
\* values or more, and whose final depth is 1; so a formula that succeeds has
\* one numeric token more than operators and, just after each operator, at
\* least one more.
C15_Original ==
    pc = "ret" =>
        /\ outcome.tag = "Ok" <=> well_formed(line_tokens)
        /\ outcome.tag = "Ok" =>
              /\ numerics(line_tokens, Len(line_tokens)) - operators(line_tokens, Len(line_tokens)) = 1
              /\ \A i \in 1..Len(line_tokens) :
                     line_tokens[i] \in Operators
                         => numerics(line_tokens, i) - operators(line_tokens, i) >= 1

\* the stack before the token at position k was processed
stack_before(k) == after(line_tokens, k - 1, overflow_checks).stk

\* C16 as claimed: a numeric token adds one entry above the existing ones, an
\* operator replaces the top two entries by one and leaves those below alone,
\* so after k tokens processed without error the depth is the number of
\* numeric tokens among them less the number of operators among them.
C16_Original ==
    (pc = "loop" /\ pos >= 1) =>
        LET tok == line_tokens[pos]
            before == stack_before(pos)
        IN  /\ is_literal(tok) =>
                  /\ Len(stack) = Len(before) + 1
                  /\ SubSeq(stack, 1, Len(before)) = before
            /\ tok \in Operators =>
                  /\ Len(stack) = Len(before) - 1
                  /\ SubSeq(stack, 1, Len(stack) - 1) = SubSeq(before, 1, Len(before) - 2)
            /\ Len(stack) = numerics(line_tokens, pos) - operators(line_tokens, pos)

\* the tokens of ts after its first k, in the order the loop pops them
remaining_after(ts, k) == rev(SubSeq(ts, k + 1, Len(ts)))

\* C17: in the loop, pos is the 1-based left-to-right index of the last token
\* processed: pos plus the number of tokens still in the buffer is the number
\* of tokens of the line, the buffer holds exactly the tokens after that index,
\* and an error with a position carries that index, which is the index of a
\* token the numeric parse rejects.
C17_PositionIsTokenIndex ==
    [](LET ts == line_tokens
       IN  /\ pc = "loop" =>
                 /\ pos + Len(tokens) = Len(ts)
                 /\ tokens = remaining_after(ts, pos)
           /\ (pc = "ret" /\ outcome.tag = "Err" /\ outcome.msg # "invalid syntax") =>
                 /\ outcome.pos = pos
                 /\ pos >= 1
                 /\ pos + Len(tokens) = Len(ts)
                 /\ tokens = remaining_after(ts, pos)
                 /\ ~parse_i32(ts[pos]).ok)

\* C17 witness: `2 + 2` has failed at its second token with one token left.
C17_Witness ==
    /\ pc = "ret"
    /\ line_tokens = <<T_2, <<"+">>, T_2>>
    /\ outcome = Err("invalid syntax at", 2)
    /\ tokens = <<T_2>>

\* the token fails where it stands: it does not parse, and it is not an
\* operator or finds fewer than two values
fails_here(tok, stk) == ~parse_i32(tok).ok /\ (tok \notin Operators \/ Len(stk) < 2)

starts_with_all_tokens ==
    pc = "eval" => (pc' = "loop" /\ pos' = 0 /\ Len(tokens') = Len(split_whitespace(line)))

iterates_once_per_token ==
    pc = "loop" =>
        \/ /\ tokens # <<>>
           /\ tokens' = but_last(tokens)
           /\ pos' = pos + 1
           /\ fails_here(last_token(tokens), stack) => (pc' = "ret" /\ outcome'.tag = "Err")
        \/ /\ tokens = <<>>
           /\ pc' = "ret"
           /\ UNCHANGED <<tokens, pos, stack>>

stays_returned == pc \in {"ret", "panic"} => UNCHANGED <<tokens, pos, stack, outcome>>

\* C19: every evaluation ends, after at most as many iterations as the line
\* has tokens: the buffer starts with the line's tokens at position 0, every
\* iteration removes exactly one token and advances the position by one, the
\* loop is left when the buffer is empty, an iteration on a failing token
\* returns the error at once, and nothing is processed after the return.
C19_TerminatesWithinTokenCount ==
    /\ <>(pc \in {"ret", "panic"})
    /\ [][starts_with_all_tokens /\ iterates_once_per_token /\ stays_returned]_vars

\* C19 witness: `2 + 2` has returned its error after two iterations, the
\* third token still in the buffer.
C19_Witness ==
    /\ pc = "ret"
    /\ outcome.tag = "Err"
    /\ pos = 2
    /\ tokens = <<T_2>>
    /\ stack = <<>>

\* C20: verbose is observational: with the flag set or clear, after each
\* token the stack and the position are those of the evaluation of the line's
\* tokens, in which the flag has no part, and eval returns (or panics) as
\* that evaluation does.
C20_VerboseIsObservational ==
    [](pc \in {"loop", "ret", "panic"} =>
          LET ts == line_tokens
              c == after(ts, pos, overflow_checks)
          IN  /\ stack = c.stk
              /\ pos <= Len(ts)
              /\ pc = "loop" => c.st = "loop"
              /\ pc = "panic" => c.st = "panic"
              /\ pc = "ret" => outcome = (IF c.st = "loop" THEN ensure_single(c.stk) ELSE c.out))

\* C20 witness: a verbose evaluation of `2 2 +` has printed its three state
\* lines and returned 4.
C20_Witness ==
    /\ verbose
    /\ pc = "ret"
    /\ line_tokens = <<T_2, T_2, <<"+">>>>
    /\ Len(state_lines(output)) = 3
    /\ outcome = Ok(4)

====
